---- MODULE Spec2Model ----
(***************************************************************************)
(* A model of shorcache's Cache<K, V> (src/lib.rs): a HashMap from keys to *)
(* heap nodes plus an intrusive doubly-linked recency list threaded        *)
(* through the same nodes, head = most recently used, tail = least.        *)
(*                                                                         *)
(* Heap nodes are the elements of the sequence `nodes`; a node's address   *)
(* is its index, NULL (0) is Option::None.  Box::into_raw never has a      *)
(* matching Box::from_raw, so a node once allocated stays in `nodes`.      *)
(***************************************************************************)
EXTENDS Integers, Sequences, FiniteSets, TLC

\* ---- bounds of the model ----
NumKeys == 3
NumVals == 2
MaxCap == 3
MaxNodes == 3

Keys == 1..NumKeys
Vals == 1..NumVals
NULL == 0
None == 0

VARIABLES
    nodes,      \* the heap: Seq of Node records, address = index
    map,        \* Cache.map : key -> node address (a function on the present keys)
    head,       \* Cache.head
    tail,       \* Cache.tail
    capacity,   \* Cache.capacity
    status,     \* "ok", or "panicked" once an unwrap has failed
    last,       \* history: the last call, its arguments and its result
    touched,    \* reference LRU: the keys touched so far by time of last touch, newest first
    lastVal,    \* reference LRU: key -> value of its latest insert (None if never inserted)
    run,        \* history: the inserts made so far, while every call has been an insert of a key never inserted before
    promo       \* history: the key of the last get that hit and the absent keys inserted since

vars == <<nodes, map, head, tail, capacity, status, last, touched, lastVal, run, promo>>

\* ---- struct Node and Node::new ----
Node_new(key, value) == [key |-> key, value |-> value, prev |-> NULL, next |-> NULL]

\* The memory a method of Cache works on: the heap and the fields of self.
Mem == [nodes |-> nodes, map |-> map, head |-> head, tail |-> tail]

\* ---- Cache::new ----
new(cap) == [nodes |-> <<>>, map |-> <<>>, head |-> NULL, tail |-> NULL, capacity |-> cap]

\* Mutant of remove_node: an inner node's successor keeps pointing back at it.
remove_node_half_link(m, n) ==
    LET prev == m.nodes[n].prev
        next == m.nodes[n].next
        taken == [m.nodes EXCEPT ![n].prev = NULL, ![n].next = NULL]
    IN  CASE prev = NULL /\ next = NULL ->
                [m EXCEPT !.nodes = taken, !.head = NULL, !.tail = NULL]
          [] prev = NULL /\ next # NULL ->
                [m EXCEPT !.nodes = [taken EXCEPT ![next].prev = NULL], !.head = next]
          [] prev # NULL /\ next = NULL ->
                [m EXCEPT !.nodes = [taken EXCEPT ![prev].next = NULL], !.tail = prev]
          [] prev # NULL /\ next # NULL ->
                [m EXCEPT !.nodes = [taken EXCEPT ![prev].next = next]]

\* Mutant of remove_node: removing the last node of the list leaves self.tail alone.
remove_node_keeps_tail(m, n) ==
    LET prev == m.nodes[n].prev
        next == m.nodes[n].next
        taken == [m.nodes EXCEPT ![n].prev = NULL, ![n].next = NULL]
    IN  CASE prev = NULL /\ next = NULL ->
                [m EXCEPT !.nodes = taken, !.head = NULL, !.tail = NULL]
          [] prev = NULL /\ next # NULL ->
                [m EXCEPT !.nodes = [taken EXCEPT ![next].prev = NULL], !.head = next]
          [] prev # NULL /\ next = NULL ->
                [m EXCEPT !.nodes = [taken EXCEPT ![prev].next = NULL]]
          [] prev # NULL /\ next # NULL ->
                [m EXCEPT !.nodes = [taken EXCEPT ![prev].next = next, ![next].prev = prev]]

\* ---- Cache::remove_node ----
remove_node(m, n) ==
    LET prev == m.nodes[n].prev
        next == m.nodes[n].next
        taken == [m.nodes EXCEPT ![n].prev = NULL, ![n].next = NULL]
    IN  CASE prev = NULL /\ next = NULL ->
                [m EXCEPT !.nodes = taken, !.head = NULL, !.tail = NULL]
          [] prev = NULL /\ next # NULL ->
                [m EXCEPT !.nodes = [taken EXCEPT ![next].prev = NULL], !.head = next]
          [] prev # NULL /\ next = NULL ->
                [m EXCEPT !.nodes = [taken EXCEPT ![prev].next = NULL], !.tail = prev]
          [] prev # NULL /\ next # NULL ->
                [m EXCEPT !.nodes = [taken EXCEPT ![prev].next = next, ![next].prev = prev]]

\* Mutant of add_node: the tail is not set when the list was empty.
add_node_forgets_tail(m, n) ==
    LET linked == [m.nodes EXCEPT ![n].prev = NULL, ![n].next = m.head]
        front == IF m.head # NULL THEN [linked EXCEPT ![m.head].prev = n] ELSE linked
    IN  [m EXCEPT !.nodes = front, !.head = n]

\* Mutant of add_node: links the node in at the tail end instead of the head.
add_node_at_tail(m, n) ==
    LET linked == [m.nodes EXCEPT ![n].next = NULL, ![n].prev = m.tail]
        back == IF m.tail # NULL THEN [linked EXCEPT ![m.tail].next = n] ELSE linked
    IN  [m EXCEPT !.nodes = back,
                  !.tail = n,
                  !.head = IF m.head = NULL THEN n ELSE m.head]

\* ---- Cache::add_node ----
add_node(m, n) ==
    LET linked == [m.nodes EXCEPT ![n].prev = NULL, ![n].next = m.head]
        front == IF m.head # NULL THEN [linked EXCEPT ![m.head].prev = n] ELSE linked
    IN  [m EXCEPT !.nodes = front,
                  !.head = n,
                  !.tail = IF m.tail = NULL THEN n ELSE m.tail]

\* Mutant of get: a hit returns the value without promoting the node.
get_no_promote(m, key) ==
    IF key \in DOMAIN m.map
    THEN [m |-> m, ret |-> m.nodes[m.map[key]].value]
    ELSE [m |-> m, ret |-> None]

\* Mutant of get: a miss falls through to the promotion code with the tail node.
get_miss_promotes_tail(m, key) ==
    LET n == IF key \in DOMAIN m.map THEN m.map[key] ELSE m.tail
    IN  IF n # NULL
        THEN LET m2 == add_node(remove_node(m, n), n)
             IN  [m |-> m2, ret |-> IF key \in DOMAIN m.map THEN m2.nodes[n].value ELSE None]
        ELSE [m |-> m, ret |-> None]

\* ---- Cache::get ----
get(m, key) ==
    IF key \in DOMAIN m.map
    THEN LET n == m.map[key]
             m2 == add_node(remove_node(m, n), n)
         IN  [m |-> m2, ret |-> m2.nodes[n].value]
    ELSE [m |-> m, ret |-> None]

\* Mutant of must_evict: the eviction branch is taken only above capacity.
must_evict_off_by_one(m, cap) == Cardinality(DOMAIN m.map) = cap + 1

\* ---- Cache::insert, the test of the eviction branch ----
must_evict(m, cap) == Cardinality(DOMAIN m.map) = cap

\* Mutant of evict: the victim is the head of the list.
evict_head(m) ==
    LET t == m.head
        m2 == remove_node(m, t)
        k == m2.nodes[t].key
    IN  [m |-> [m2 EXCEPT !.map = [j \in DOMAIN m2.map \ {k} |-> m2.map[j]]],
         evicted |-> k]

\* Mutant of evict: the victim leaves the list but its key stays in the map.
evict_keeps_key(m) ==
    LET t == m.tail
        m1 == [m EXCEPT !.tail = NULL]
        m2 == remove_node(m1, t)
    IN  [m |-> m2, evicted |-> m2.nodes[t].key]

\* Mutant of evict: the key leaves the map but the node stays in the list.
evict_keeps_node(m) ==
    LET t == m.tail
        k == m.nodes[t].key
    IN  [m |-> [m EXCEPT !.map = [j \in DOMAIN m.map \ {k} |-> m.map[j]]],
         evicted |-> k]

\* ---- Cache::insert, the eviction branch (called with a non-empty tail) ----
evict(m) ==
    LET t == m.tail
        m1 == [m EXCEPT !.tail = NULL]
        m2 == remove_node(m1, t)
        k == m2.nodes[t].key
    IN  [m |-> [m2 EXCEPT !.map = [j \in DOMAIN m2.map \ {k} |-> m2.map[j]]],
         evicted |-> k]

\* Mutant of insert_occupied: the value is written to the head node.
insert_occupied_writes_head(m, key, value) ==
    LET n == m.map[key]
        m1 == [m EXCEPT !.nodes[m.head].value = value]
    IN  add_node(remove_node(m1, n), n)

\* Mutant of insert_occupied: the node is promoted but keeps its old value.
insert_occupied_keeps_value(m, key, value) ==
    LET n == m.map[key]
    IN  add_node(remove_node(m, n), n)

\* ---- Cache::insert, Entry::Occupied ----
insert_occupied(m, key, value) ==
    LET n == m.map[key]
        m1 == [m EXCEPT !.nodes[n].value = value]
    IN  add_node(remove_node(m1, n), n)

\* ---- Cache::insert, Entry::Vacant after the eviction branch ----
insert_vacant(m, key, value) ==
    LET n == Len(m.nodes) + 1
        m1 == [m EXCEPT !.nodes = Append(@, Node_new(key, value))]
        m2 == [m1 EXCEPT !.map = (key :> n) @@ @]
    IN  add_node(m2, n)

\* Mutant of insert: the capacity test runs before the key is looked up.
insert_evicts_first(m, cap, key, value) ==
    IF must_evict(m, cap)
    THEN IF m.tail = NULL
         THEN [m |-> [m EXCEPT !.tail = NULL], evicted |-> None, panic |-> TRUE]
         ELSE LET e == evict(m)
              IN  [m |-> IF key \in DOMAIN e.m.map
                         THEN insert_occupied(e.m, key, value)
                         ELSE insert_vacant(e.m, key, value),
                   evicted |-> e.evicted, panic |-> FALSE]
    ELSE [m |-> IF key \in DOMAIN m.map
                THEN insert_occupied(m, key, value)
                ELSE insert_vacant(m, key, value),
          evicted |-> None, panic |-> FALSE]

\* ---- Cache::insert ----
insert(m, cap, key, value) ==
    IF key \in DOMAIN m.map
    THEN [m |-> insert_occupied(m, key, value), evicted |-> None, panic |-> FALSE]
    ELSE IF must_evict(m, cap)
         THEN IF m.tail = NULL
              THEN [m |-> [m EXCEPT !.tail = NULL], evicted |-> None, panic |-> TRUE]
              ELSE LET e == evict(m)
                   IN  [m |-> insert_vacant(e.m, key, value),
                        evicted |-> e.evicted, panic |-> FALSE]
         ELSE [m |-> insert_vacant(m, key, value), evicted |-> None, panic |-> FALSE]

\* ---- reading the recency list ----
RECURSIVE Walk(_, _, _)
Walk(ns, n, fuel) ==
    IF n = NULL \/ fuel = 0 THEN <<>> ELSE <<n>> \o Walk(ns, ns[n].next, fuel - 1)

\* The nodes reached from head by following next.
ListNodes == Walk(nodes, head, Len(nodes) + 1)
\* Their keys, head first.
ListKeys == [i \in 1..Len(ListNodes) |-> nodes[ListNodes[i]].key]
\* The keys of the index.
PresentKeys == DOMAIN map
\* The value the index leads to for a present key.
ValueOf(k) == nodes[map[k]].value

\* ---- helpers on sequences of keys ----
RECURSIVE Without(_, _)
Without(s, k) ==
    IF s = <<>> THEN <<>>
    ELSE IF Head(s) = k THEN Without(Tail(s), k)
         ELSE <<Head(s)>> \o Without(Tail(s), k)

Range(s) == {s[i] : i \in 1..Len(s)}
Prefix(s, n) == SubSeq(s, 1, IF n < Len(s) THEN n ELSE Len(s))
\* A touch of k: k becomes the newest key.
Touch(s, k) == <<k>> \o Without(s, k)
\* The reference LRU cache: the `capacity` most recently touched keys.
Recent == Range(Prefix(touched, capacity))
\* What a strict LRU cache answers to get(k).
RefLookup(k) == IF k \in Recent THEN lastVal[k] ELSE None

NoCall == [op |-> "none", key |-> None, val |-> None, ret |-> None, evicted |-> None]
NoRun == [pure |-> FALSE, ins |-> <<>>, evs |-> <<>>]
NoPromo == [key |-> None, seen |-> {}]

\* ---- the program ----
Init ==
    /\ \E cap \in 0..MaxCap :
          LET c == new(cap)
          IN  /\ nodes = c.nodes
              /\ map = c.map
              /\ head = c.head
              /\ tail = c.tail
              /\ capacity = c.capacity
    /\ status = "ok"
    /\ last = NoCall
    /\ touched = <<>>
    /\ lastVal = [k \in Keys |-> None]
    /\ run = [pure |-> TRUE, ins |-> <<>>, evs |-> <<>>]
    /\ promo = NoPromo

\* cache.get(&key)
Get(key) ==
    /\ status = "ok"
    /\ \E r \in {get(Mem, key)} :
           /\ nodes' = r.m.nodes
           /\ map' = r.m.map
           /\ head' = r.m.head
           /\ tail' = r.m.tail
           /\ last' = [op |-> "get", key |-> key, val |-> None, ret |-> r.ret, evicted |-> None]
           /\ touched' = IF key \in Recent THEN Touch(touched, key) ELSE touched
           /\ promo' = IF r.ret # None THEN [key |-> key, seen |-> {}] ELSE NoPromo
    /\ run' = NoRun
    /\ UNCHANGED <<capacity, status, lastVal>>

\* cache.insert(key, value)
Insert(key, value) ==
    /\ status = "ok"
    /\ key \in DOMAIN map \/ Len(nodes) < MaxNodes
    /\ \E r \in {insert(Mem, capacity, key, value)} :
           /\ nodes' = r.m.nodes
           /\ map' = r.m.map
           /\ head' = r.m.head
           /\ tail' = r.m.tail
           /\ status' = IF r.panic THEN "panicked" ELSE "ok"
           /\ last' = [op |-> IF r.panic THEN "panic" ELSE "insert",
                       key |-> key, val |-> value, ret |-> None, evicted |-> r.evicted]
           /\ touched' = IF r.panic THEN touched ELSE Touch(touched, key)
           /\ lastVal' = IF r.panic THEN lastVal ELSE [lastVal EXCEPT ![key] = value]
           /\ run' = IF run.pure /\ ~r.panic /\ key \notin Range(run.ins)
                     THEN [pure |-> TRUE,
                           ins |-> Append(run.ins, key),
                           evs |-> IF r.evicted # None
                                   THEN Append(run.evs, r.evicted) ELSE run.evs]
                     ELSE NoRun
           /\ promo' = IF /\ promo.key # None
                          /\ ~r.panic
                          /\ key \notin DOMAIN map
                          /\ key \notin promo.seen
                       THEN [promo EXCEPT !.seen = @ \cup {key}]
                       ELSE NoPromo
    /\ UNCHANGED capacity

Next ==
    \/ \E key \in Keys : Get(key)
    \/ \E key \in Keys, value \in Vals : Insert(key, value)

Spec == Init /\ [][Next]_vars

\* ---- what the claims speak of ----
Full == Cardinality(PresentKeys) = capacity
\* The keys of s that satisfy membership in S, in the order of s.
RECURSIVE Only(_, _)
Only(s, S) ==
    IF s = <<>> THEN <<>>
    ELSE IF Head(s) \in S THEN <<Head(s)>> \o Only(Tail(s), S)
         ELSE Only(Tail(s), S)
\* The last call was a completed insert that found its key in the map: it
\* allocated nothing, so the head is not the newest node of the heap.
LastInsertWasUpdate == last.op = "insert" /\ head # NULL /\ head < Len(nodes)

\* C1: after every completed operation, for every capacity, the number of
\* cached entries (map.len(), and the length of the recency list) is at most
\* the capacity.
C1_CapacityBound ==
    /\ Cardinality(PresentKeys) <= capacity
    /\ Len(ListNodes) <= capacity

\* An insert has just evicted and left the cache exactly full.
C1_Witness == last.op = "insert" /\ last.evicted # None /\ Full

\* C2: for capacity >= 1 the cache answers every get as a strict LRU cache
\* does: Some(v), v the value of the latest insert of k, exactly when k is
\* among the `capacity` most recently touched keys, None otherwise.  Stated of
\* the get just made and of the get any key would receive next.
C2_StrictLRU ==
    capacity >= 1 =>
        /\ last.op = "get" => last.ret = RefLookup(last.key)
        /\ \A k \in Keys : get(Mem, k).ret = RefLookup(k)

\* A get has just missed on a key that was inserted earlier and evicted since
\* (its node is still on the heap).
C2_Witness ==
    /\ last.op = "get"
    /\ last.ret = None
    /\ \E i \in 1..Len(nodes) : nodes[i].key = last.key
    /\ Full

\* C3: a completed insert of an absent key evicts exactly the tail entry when
\* the cache holds exactly `capacity` entries and nothing when it holds fewer;
\* no insert removes more than one key.
C3_EvictsTailWhenFull ==
    [][/\ (last'.op = "insert" /\ last'.key \notin PresentKeys) =>
            IF Full
            THEN /\ last'.evicted = nodes[tail].key
                 /\ PresentKeys \ PresentKeys' = {nodes[tail].key}
                 /\ PresentKeys' = (PresentKeys \ {nodes[tail].key}) \cup {last'.key}
                 /\ ListKeys' = <<last'.key>> \o SubSeq(ListKeys, 1, Len(ListKeys) - 1)
            ELSE /\ last'.evicted = None
                 /\ PresentKeys' = PresentKeys \cup {last'.key}
                 /\ ListKeys' = <<last'.key>> \o ListKeys
       /\ last'.op = "insert" => Cardinality(PresentKeys \ PresentKeys') <= 1
      ]_vars

\* An insert has just evicted from a cache of two or more entries.
C3_Witness == last.op = "insert" /\ last.evicted # None /\ Len(ListKeys) >= 2

\* C4: get(k) on a present key returns the value stored for k and moves k's
\* node to the head; the present keys, every stored value and the relative
\* order of the other entries are unchanged.
C4_GetHitPromotes ==
    [][(last'.op = "get" /\ last'.key \in PresentKeys) =>
            /\ last'.ret = ValueOf(last'.key)
            /\ head' = map[last'.key]
            /\ ListKeys' = <<last'.key>> \o Without(ListKeys, last'.key)
            /\ map' = map
            /\ \A j \in PresentKeys : ValueOf(j)' = ValueOf(j)
      ]_vars

\* A get has just hit in a cache of two or more entries and promoted a node
\* that was allocated before the one it now precedes.
C4_Witness ==
    /\ last.op = "get"
    /\ last.ret # None
    /\ Len(ListKeys) >= 2
    /\ head < nodes[head].next

\* C5: get(k) on an absent key returns None and leaves keys, values, recency
\* order, head and tail as they were.
C5_GetMissPure ==
    [][(last'.op = "get" /\ last'.key \notin PresentKeys) =>
            /\ last'.ret = None
            /\ UNCHANGED <<nodes, map, head, tail>>
      ]_vars

\* A get has just missed on a non-empty cache.
C5_Witness == last.op = "get" /\ last.ret = None /\ Len(ListKeys) >= 1

\* C6: insert(k, v) with k already present completes without evicting and
\* without changing the set of present keys or their number, full or not.
C6_UpdateKeepsKeys ==
    [][(last'.op \in {"insert", "panic"} /\ last'.key \in PresentKeys) =>
            /\ last'.op = "insert"
            /\ last'.evicted = None
            /\ PresentKeys' = PresentKeys
            /\ Len(ListKeys') = Len(ListKeys)
            /\ Len(nodes') = Len(nodes)
      ]_vars

\* An insert has just updated a present key of a full cache.
C6_Witness == LastInsertWasUpdate /\ Full

\* C7: after insert(k, v) completes on a cache with capacity >= 1, k is
\* present, its node is the head and stores v, and a get(k) made next
\* returns v.
C7_InsertedIsHead ==
    (capacity >= 1 /\ last.op = "insert") =>
        /\ last.key \in PresentKeys
        /\ map[last.key] = head
        /\ nodes[head].key = last.key
        /\ nodes[head].value = last.val
        /\ get(Mem, last.key).ret = last.val

\* An insert has just given a present key, not alone in the cache, a value.
C7_Witness == LastInsertWasUpdate /\ Len(ListKeys) >= 2 /\ nodes[head].value = last.val

\* C8: after every completed operation the recency list from head to tail is
\* the present keys by time of last touch, newest first.
C8_ListIsTouchOrder ==
    /\ ListKeys = Only(touched, PresentKeys)
    /\ Range(ListKeys) = PresentKeys
    /\ head # NULL => (nodes[head].key = Head(touched) /\ nodes[tail].key = ListKeys[Len(ListKeys)])

\* The list order differs from the order of allocation: a touch reordered it.
C8_Witness ==
    /\ Len(ListKeys) >= 2
    /\ head < nodes[head].next
    /\ last.op \in {"get", "insert"}
    /\ Len(touched) > Len(ListKeys)

C10_Original ==
    (promo.key # None /\ Cardinality(promo.seen) = capacity) =>
        promo.key \in PresentKeys

\* C10 amended: after a get(k) that hit and then inserts of at most
\* `capacity - 1` distinct absent keys, k is still present and a get(k) hits.
C10_RetainedBelowCapacity ==
    (promo.key # None /\ Cardinality(promo.seen) <= capacity - 1) =>
        /\ promo.key \in PresentKeys
        /\ get(Mem, promo.key).ret # None

\* After the get, capacity - 1 inserts have been made, the last one evicting
\* another entry while k stayed.
C10_Witness ==
    /\ promo.key # None
    /\ capacity >= 2
    /\ Cardinality(promo.seen) = capacity - 1
    /\ last.evicted # None

\* C11: new(capacity) with capacity == 0 fails and produces no cache that
\* accepts calls.
C11_ZeroCapacityRejected == capacity = 0 => status # "ok"

\* C12: on a cache with capacity >= 1 no call fails: no unwrap has panicked,
\* and in every state where an insert would take the eviction branch the tail
\* is non-empty, so no insert made next panics either.
C12_NoPanic ==
    capacity >= 1 =>
        /\ status = "ok"
        /\ last.op # "panic"
        /\ must_evict(Mem, capacity) => tail # NULL
        /\ \A k \in Keys, v \in Vals : ~insert(Mem, capacity, k, v).panic

\* An insert has just gone through the eviction branch of a cache of
\* capacity 1 (the taken tail was the only node) and completed.
C12_Witness == capacity = 1 /\ last.op = "insert" /\ last.evicted # None

\* C13: after every completed operation the index has as many keys as the
\* walk from head to tail has nodes.
C13_IndexSizeIsListLength == Cardinality(PresentKeys) = Len(ListNodes)

\* An eviction has just happened and the heap holds more nodes than the list.
C13_Witness ==
    /\ last.op = "insert"
    /\ last.evicted # None
    /\ Len(ListNodes) >= 1
    /\ Len(nodes) > Len(ListNodes)

\* The number of places of the sequence s that hold x.
Occurrences(s, x) == Cardinality({i \in 1..Len(s) : s[i] = x})

\* C14: after every completed operation every key k of the index leads to a
\* node whose key is k and that occurs exactly once in the recency list; a
\* key just evicted is in neither the index nor the list.
C14_IndexAgreesWithList ==
    /\ \A k \in PresentKeys :
          /\ map[k] \in 1..Len(nodes)
          /\ nodes[map[k]].key = k
          /\ Occurrences(ListNodes, map[k]) = 1
    /\ (last.op = "insert" /\ last.evicted # None) =>
          /\ last.evicted \notin PresentKeys
          /\ last.evicted \notin Range(ListKeys)

\* An insert has just evicted a key from a cache that keeps two or more others.
C14_Witness ==
    /\ last.op = "insert"
    /\ last.evicted # None
    /\ Cardinality(PresentKeys) >= 2
    /\ last.evicted \notin PresentKeys

\* C15: after every completed operation the list is a well-formed chain:
\* head and tail are None exactly when the cache is empty; otherwise head.prev
\* and tail.next are None, following next from head reaches tail after exactly
\* size - 1 steps and no sooner, and every next link is answered by a prev link.
C15_WellFormedChain ==
    /\ (head = NULL) = (PresentKeys = {})
    /\ (tail = NULL) = (PresentKeys = {})
    /\ head # NULL =>
          /\ tail # NULL
          /\ nodes[head].prev = NULL
          /\ nodes[tail].next = NULL
          /\ Len(ListNodes) = Cardinality(PresentKeys)
          /\ ListNodes[Len(ListNodes)] = tail
          /\ \A i \in 1..Len(ListNodes) : Occurrences(ListNodes, ListNodes[i]) = 1
          /\ \A i \in 1..(Len(ListNodes) - 1) :
                /\ nodes[ListNodes[i]].next = ListNodes[i + 1]
                /\ nodes[ListNodes[i + 1]].prev = ListNodes[i]

\* The chain has an inner node, and the last call took a node out of the list
\* and put one in.
C15_Witness ==
    /\ Len(ListNodes) >= 3
    /\ last.op \in {"get", "insert"}
    /\ last.ret # None \/ LastInsertWasUpdate

\* C16: on a cache of capacity 0 the first insert of any key panics on the
\* empty tail and stores nothing; get returns None.
C16_ZeroCapacityPanics ==
    capacity = 0 =>
        /\ last.op \in {"none", "get", "panic"}
        /\ last.op = "get" => last.ret = None
        /\ (status = "panicked") = (last.op = "panic")
        /\ PresentKeys = {} /\ nodes = <<>> /\ head = NULL /\ tail = NULL
        /\ \A k \in Keys :
              /\ get(Mem, k).ret = None
              /\ \A v \in Vals : insert(Mem, capacity, k, v).panic

\* The first insert on a cache of capacity 0 has just panicked.
C16_Witness == capacity = 0 /\ last.op = "panic" /\ status = "panicked"

\* The recency list of a memory m: its nodes and their keys, head first.
ListNodesOf(m) == Walk(m.nodes, m.head, Len(m.nodes) + 1)
RECURSIVE WalkKeys(_, _, _)
WalkKeys(ns, n, fuel) ==
    IF n = NULL \/ fuel = 0 THEN <<>>
    ELSE <<ns[n].key>> \o WalkKeys(ns, ns[n].next, fuel - 1)
ListKeysOf(m) == WalkKeys(m.nodes, m.head, Len(m.nodes) + 1)

\* C17: the nodes that exist (allocated and not destroyed) are exactly the
\* nodes of the recency list after every completed operation.  No code path
\* destroys a node, so the nodes that exist are all the nodes of the heap.
C17_LiveNodesAreListNodes == 1..Len(nodes) = Range(ListNodes)

\* C18: in every reachable state, an insert(k, v) that completes leaves every
\* other surviving key with its value, its node and its place relative to the
\* other survivors.
C18_InsertFrame ==
    \A before \in {ListKeysOf(Mem)} :
        \A k \in Keys, v \in Vals :
            \A r \in {insert(Mem, capacity, k, v)} :
                ~r.panic =>
                    \A S \in {(PresentKeys \cap DOMAIN r.m.map) \ {k}} :
                        /\ \A j \in S : /\ r.m.map[j] = map[j]
                                        /\ r.m.nodes[r.m.map[j]].value = ValueOf(j)
                        /\ Only(ListKeysOf(r.m), S) = Only(before, S)
                        /\ PresentKeys \ {k, r.evicted} \subseteq S

\* An insert has just completed in a cache that holds two other keys.
C18_Witness == last.op = "insert" /\ Len(ListKeys) >= 3 /\ nodes[head].key = last.key

\* C19: in every reachable state of a cache with capacity >= 1, for every key
\* k and value v, get(k); get(k) leaves the keys, values and recency order of
\* a single get(k) and returns the same, and insert(k, v); insert(k, v) leaves
\* those of a single insert(k, v).  The second call leaves the whole memory
\* (heap, map, head, tail) as the first left it, hence keys, values and order.
C19_RepeatIsIdempotent ==
    capacity >= 1 =>
        \A k \in Keys :
            /\ \A g1 \in {get(Mem, k)} :
                  \A g2 \in {get(g1.m, k)} :
                      g2.m = g1.m /\ g2.ret = g1.ret
            /\ \A v \in Vals :
                  \A i1 \in {insert(Mem, capacity, k, v)} :
                      \A i2 \in {insert(i1.m, capacity, k, v)} :
                          /\ ~i1.panic /\ ~i2.panic
                          /\ i2.evicted = None
                          /\ i2.m = i1.m

\* A get has just hit in a cache of two or more keys, and repeating it
\* changes nothing.
C19_Witness ==
    /\ capacity >= 1
    /\ last.op = "get"
    /\ last.ret # None
    /\ Len(ListKeys) >= 2
    /\ get(Mem, last.key).m = Mem

\* C20: in every reachable state, remove_node on a node n of the list leaves
\* n.prev and n.next None, links n's former neighbours to each other, moves
\* head to the former next if n was the head and tail to the former prev if n
\* was the tail, and changes no key, no value and not the order of the others.
C20_RemoveNodeFrame ==
    \A i \in 1..Len(ListNodes) :
        LET n == ListNodes[i]
            p == nodes[n].prev
            x == nodes[n].next
        IN  \A r \in {remove_node(Mem, n)} :
            /\ r.nodes[n].prev = NULL /\ r.nodes[n].next = NULL
            /\ p # NULL => r.nodes[p].next = x
            /\ x # NULL => r.nodes[x].prev = p
            /\ r.head = IF n = head THEN x ELSE head
            /\ r.tail = IF n = tail THEN p ELSE tail
            /\ \A a \in 1..Len(nodes) :
                  /\ r.nodes[a].key = nodes[a].key
                  /\ r.nodes[a].value = nodes[a].value
            /\ ListNodesOf(r) = SubSeq(ListNodes, 1, i - 1) \o SubSeq(ListNodes, i + 1, Len(ListNodes))
            /\ Walk(r.nodes, r.tail, Len(nodes) + 1) = IF r.tail = NULL THEN <<>> ELSE <<r.tail>>
            /\ r.map = map

\* A get has just taken the inner node of a list of three out and put it at
\* the head: the node allocated second now precedes the one allocated third.
C20_Witness ==
    /\ Len(ListNodes) = 3
    /\ last.op = "get"
    /\ last.ret # None
    /\ head = 2
    /\ nodes[head].next = 3

====
